---- MODULE Spec2Model ----
(***************************************************************************)
(* Job tracking, prediction polling and rate limiting of the AI service    *)
(* (creative-design-platform/ai-service/src), and the Redis utilities and  *)
(* background router of ai-service/app.                                    *)
(*                                                                         *)
(* Seven specifications share one set of variables:                         *)
(*   SpecTracker  arbitrary callers of the JobTracker API                  *)
(*   SpecLimiter  RateLimiter.check_rate_limit under a non-decreasing clock *)
(*   Spec         one service operation (generate_images, upscale_image,   *)
(*                generate_text) run from its call to its return or raise  *)
(*   SpecEndpoint whole requests to the endpoints behind the rate limiter  *)
(*   SpecApp      the cache utilities and the background router            *)
(*   SpecUsage    the usage counters and the batch task over Redis          *)
(*   SpecAsync    generate_text calls gathered by generate_bulk_text and    *)
(*                initialize() calls, interleaving at their await points    *)
(*                                                                         *)
(* Progress percentages are floats in the source; here they are integers   *)
(* in twelfths of a percent (Pct), which makes every value the modelled    *)
(* code computes exact.  The created_at / updated_at timestamps and the    *)
(* metadata mapping of a job record are not modelled.                      *)
(***************************************************************************)
EXTENDS Integers, Sequences, FiniteSets, TLC

VARIABLES
    jobs,           \* JobTracker.jobs: job_id -> record (a dict: partial function)
    everCreated,    \* history: job ids ever passed to create_job
    lastCall,       \* history: the last JobTracker call made by an outside caller
    completedWith,  \* history: job id -> the result last passed to set_job_completed
    requests,       \* RateLimiter.requests: identifier -> list of timestamps
    now,            \* the clock read by check_rate_limit
    calls,          \* history: identifier -> sequence of [t, ok] of its calls
    pc,             \* position of the running service operation
    op,             \* which operation runs
    request,        \* its request
    job_id,         \* the job id it generated
    exc,            \* the exception in flight / raised (NoneVal if none)
    retry_count,    \* _poll_prediction's retry_count
    nFetch,         \* history: status fetches made by _poll_prediction
    onlyProcessing, \* history: every fetch so far answered "processing"
    source,         \* the status source the provider plays
    result_urls,    \* _poll_prediction's return value
    variations,     \* generate_text's variations list
    vi,             \* generate_text's loop index i
    http,           \* HTTP status the endpoint answers (0: none yet)
    response,       \* the last HTTP response an endpoint answered, whole
    deepl_client,   \* TextGenerationService.deepl_client
    redis_client,   \* utils/cache.py: the module's global Redis client
    redis_up,       \* environment: the Redis server answers
    store,          \* environment: the Redis keyspace (cached results, usage counters)
    lastCacheCall,  \* history: the last call into utils/cache.py and its outcome
    usageRequested, \* history: what increment_usage was asked to add, per counter
    batch,          \* process_batch_generation: its position and locals
    bulk,           \* the concurrent generate_text calls: position, job id, loop index
    wrote,          \* history: the job record each concurrent call last wrote
    initCalls,      \* the concurrent initialize() calls: their positions
    is_initialized, \* BaseAIService._is_initialized
    setupsDone      \* history: how many _setup runs completed successfully

trackerVars == <<jobs, everCreated, lastCall, completedWith>>
limiterVars == <<requests, now, calls>>
pollVars    == <<retry_count, nFetch, onlyProcessing, source, result_urls>>
textVars    == <<variations, vi>>
taskVars    == <<pc, op, request, job_id, exc, http>>
endpointVars == <<response, deepl_client>>
cacheVars   == <<redis_client, redis_up, store, lastCacheCall>>
appVars     == <<usageRequested, batch>>
asyncVars   == <<bulk, wrote, initCalls, is_initialized, setupsDone>>
sideVars    == <<endpointVars, cacheVars, appVars, asyncVars>>
vars == <<jobs, everCreated, lastCall, completedWith, requests, now, calls, pc, op,
          request, job_id, exc, retry_count, nFetch, onlyProcessing, source,
          result_urls, variations, vi, http, response, deepl_client, redis_client,
          redis_up, store, lastCacheCall, usageRequested, batch, bulk, wrote,
          initCalls, is_initialized, setupsDone>>

\* Python's None
NoneVal == "None"

\* a percentage, in twelfths of a percent
Pct(x) == x * 12

Min(a, b) == IF a < b THEN a ELSE b

(***************************************************************************)
(* Bounds                                                                  *)
(***************************************************************************)
MaxJobs == 2
JobIds == 1..MaxJobs

(***************************************************************************)
(* JobTracker (services/base.py)                                           *)
(***************************************************************************)
Terminal == {"completed", "failed"}

\* dict assignment self.jobs[job_id] = {...}
create_job(js, j, operation) ==
    [k \in DOMAIN js \cup {j} |->
        IF k = j
        THEN [job_id |-> j, operation |-> operation, status |-> "pending",
              progress |-> Pct(0), result_url |-> NoneVal,
              error_message |-> NoneVal]
        ELSE js[k]]

\* dict.update(updates): keys of updates overwrite, the others stay
DictUpdate(d, updates) ==
    [f \in DOMAIN d \cup DOMAIN updates |->
        IF f \in DOMAIN updates THEN updates[f] ELSE d[f]]

\* a plausible slip: the update lands in every record of the tracker
update_job_shared(js, j, updates) ==
    IF j \in DOMAIN js
    THEN [k \in DOMAIN js |-> DictUpdate(js[k], updates)]
    ELSE js

\* a plausible slip: update an entry whether or not it exists
update_job_unguarded(js, j, updates) ==
    [k \in DOMAIN js \cup {j} |->
        IF k = j
        THEN DictUpdate(IF j \in DOMAIN js THEN js[j] ELSE [job_id |-> j], updates)
        ELSE js[k]]

\* update_job(job_id, **updates)
update_job(js, j, updates) ==
    IF j \in DOMAIN js
    THEN [js EXCEPT ![j] = DictUpdate(@, updates)]
    ELSE js

\* what dict.get answers for a missing key (None)
NoJob == [none |-> TRUE]

get_job(js, j) == IF j \in DOMAIN js THEN js[j] ELSE NoJob

set_job_processing(js, j, progress) ==
    update_job(js, j, [status |-> "processing", progress |-> progress])

\* a plausible slip: the completion that leaves the progress where it was
set_job_completed_no_progress(js, j, result_url) ==
    update_job(js, j, [status |-> "completed", result_url |-> result_url])

set_job_completed(js, j, result_url) ==
    update_job(js, j, [status |-> "completed", progress |-> Pct(100),
                       result_url |-> result_url])

\* a plausible slip: the except handler's call that records nothing
set_job_failed_dropped(js, j, error_message) == js

set_job_failed(js, j, error_message) ==
    update_job(js, j, [status |-> "failed", error_message |-> error_message])

\* GET /api/v1/jobs/{job_id}
get_job_status(js, j) ==
    LET job == get_job(js, j)
    IN IF job = NoJob
       THEN [status_code |-> 404, body |-> "Job not found"]
       ELSE [status_code |-> 200, body |-> job]

(***************************************************************************)
(* RateLimiter (services/base.py)                                          *)
(***************************************************************************)
MaxTime == 4
MaxCalls == 4
max_requests == 2
window_seconds == 3
Identifiers == {"ip1", "ip2"}

\* a plausible slip: an entry exactly window_seconds old is kept
InWindowInclusive(t, req_time) == t - req_time <= window_seconds

\* the filter of the list comprehension
InWindow(t, req_time) == t - req_time < window_seconds

\* a plausible slip: > for >= admits one request too many
OverLimitStrict(n) == n > max_requests

OverLimit(n) == n >= max_requests

\* a plausible slip: the list is never pruned
PruneNothing(lst, t) == lst

RECURSIVE Prune(_, _)
Prune(lst, t) ==
    IF lst = <<>> THEN <<>>
    ELSE IF InWindow(t, Head(lst)) THEN <<Head(lst)>> \o Prune(Tail(lst), t)
         ELSE Prune(Tail(lst), t)

\* a plausible slip: the request is recorded before the limit is checked, so
\* a rejected call leaves its timestamp behind
check_rate_limit_records_rejected(reqs, identifier, t) ==
    LET have   == IF identifier \in DOMAIN reqs THEN reqs[identifier] ELSE <<>>
        pruned == Prune(have, t)
        put(l) == [k \in DOMAIN reqs \cup {identifier} |->
                     IF k = identifier THEN l ELSE reqs[k]]
    IN IF OverLimit(Len(pruned))
       THEN [requests |-> put(Append(pruned, t)), admitted |-> FALSE]
       ELSE [requests |-> put(Append(pruned, t)), admitted |-> TRUE]

\* check_rate_limit at clock value t: the new requests dict and the answer
check_rate_limit(reqs, identifier, t) ==
    LET have   == IF identifier \in DOMAIN reqs THEN reqs[identifier] ELSE <<>>
        pruned == Prune(have, t)
        put(l) == [k \in DOMAIN reqs \cup {identifier} |->
                     IF k = identifier THEN l ELSE reqs[k]]
    IN IF OverLimit(Len(pruned))
       THEN [requests |-> put(pruned), admitted |-> FALSE]
       ELSE [requests |-> put(Append(pruned, t)), admitted |-> TRUE]

(***************************************************************************)
(* Values every specification starts from                                  *)
(***************************************************************************)
NoRequest == [kind |-> NoneVal]
NoSource == [kind |-> NoneVal, k |-> 0]

NoCall == [name |-> NoneVal, job_id |-> 0]

TrackerInit ==
    /\ jobs = <<>>
    /\ everCreated = {}
    /\ lastCall = NoCall
    /\ completedWith = [j \in JobIds |-> NoneVal]

\* the text service after construction; no endpoint has answered
NoResponse == [endpoint |-> NoneVal, status_code |-> 0, detail |-> NoneVal]

EndpointInit == response = NoResponse /\ deepl_client = NoneVal

\* utils/cache.py after import: no client; the keyspace is empty
NoCacheCall == [name |-> NoneVal, key |-> NoneVal, limit |-> 0, requested |-> 0,
                unavailable |-> FALSE, raised |-> FALSE, returned |-> NoneVal]

CacheInit ==
    /\ redis_client = NoneVal
    /\ redis_up = TRUE
    /\ store = [cache |-> <<>>, usage |-> <<>>, job |-> [status |-> NoneVal]]
    /\ lastCacheCall = NoCacheCall

LimiterInit ==
    /\ requests = <<>>
    /\ now = 0
    /\ calls = [id \in Identifiers |-> <<>>]

TaskInit ==
    /\ pc = "idle"
    /\ op = NoneVal
    /\ request = NoRequest
    /\ job_id = 0
    /\ exc = NoneVal
    /\ http = 0
    /\ retry_count = 0
    /\ nFetch = 0
    /\ onlyProcessing = TRUE
    /\ source = NoSource
    /\ result_urls = <<>>
    /\ variations = <<>>
    /\ vi = 0

\* the batch task has not been started
NoBatch == [pc |-> "idle", total |-> 0, i |-> 0, completed |-> 0, failed |-> 0]

AppInit ==
    /\ usageRequested = <<>>
    /\ batch = NoBatch

\* the tasks that run concurrently on the event loop
Tasks == JobIds

\* a generate_text call that has not been made
NoBulk == [pc |-> "idle", job_id |-> 0, i |-> 0]

\* a service after __init__: _is_initialized is False
AsyncInit ==
    /\ bulk = [p \in Tasks |-> NoBulk]
    /\ wrote = [p \in Tasks |-> NoJob]
    /\ initCalls = [p \in Tasks |-> "idle"]
    /\ is_initialized = FALSE
    /\ setupsDone = 0

Init ==
    /\ TrackerInit /\ LimiterInit /\ TaskInit /\ EndpointInit /\ CacheInit
    /\ AppInit /\ AsyncInit

(***************************************************************************)
(* SpecTracker: any caller, any sequence of JobTracker calls               *)
(***************************************************************************)
ProgressArgs == {Pct(10), Pct(100)}
Urls == {"url1", "url2"}
ErrorMessages == {"boom"}

TrackerCreate(j) ==
    /\ jobs' = create_job(jobs, j, "image_generation")
    /\ everCreated' = everCreated \cup {j}
    /\ lastCall' = [name |-> "create_job", job_id |-> j]
    /\ UNCHANGED <<completedWith, limiterVars, sideVars, taskVars, pollVars, textVars>>

TrackerSetProcessing(j, progress) ==
    /\ lastCall' = [name |-> "set_job_processing", job_id |-> j]
    /\ jobs' = set_job_processing(jobs, j, progress)
    /\ UNCHANGED <<everCreated, completedWith, limiterVars, sideVars, taskVars, pollVars, textVars>>

TrackerSetCompleted(j, result_url) ==
    /\ lastCall' = [name |-> "set_job_completed", job_id |-> j]
    /\ jobs' = set_job_completed(jobs, j, result_url)
    /\ completedWith' = [completedWith EXCEPT ![j] = result_url]
    /\ UNCHANGED <<everCreated, limiterVars, sideVars, taskVars, pollVars, textVars>>

TrackerSetFailed(j, error_message) ==
    /\ lastCall' = [name |-> "set_job_failed", job_id |-> j]
    /\ jobs' = set_job_failed(jobs, j, error_message)
    /\ UNCHANGED <<everCreated, completedWith, limiterVars, sideVars, taskVars, pollVars, textVars>>

TrackerNext ==
    \/ \E j \in JobIds : TrackerCreate(j)
    \/ \E j \in JobIds, p \in ProgressArgs : TrackerSetProcessing(j, p)
    \/ \E j \in JobIds, u \in Urls : TrackerSetCompleted(j, u)
    \/ \E j \in JobIds, e \in ErrorMessages : TrackerSetFailed(j, e)

SpecTracker == Init /\ [][TrackerNext]_vars

\* C1 (as claimed): terminal states are sticky -- a set_job_processing call on
\* a job that is completed or failed leaves the job's status as it was.
C1_TerminalSticky ==
    [][\A j \in JobIds :
          (/\ lastCall'.name = "set_job_processing"
           /\ lastCall'.job_id = j
           /\ j \in DOMAIN jobs
           /\ jobs[j].status \in Terminal)
          => jobs'[j].status = jobs[j].status]_vars

\* C8: a job id never passed to create_job has no record (get_job answers
\* None, the status endpoint 404), whatever mutators were called with it.
C8_UnknownJobAbsent ==
    \A j \in JobIds \ everCreated :
        /\ get_job(jobs, j) = NoJob
        /\ get_job_status(jobs, j).status_code = 404

\* C8 witness: a mutator was just called with an id never created, while
\* another job exists.
C8_Witness ==
    /\ lastCall.name \in {"set_job_processing", "set_job_completed", "set_job_failed"}
    /\ lastCall.job_id \notin everCreated
    /\ everCreated # {}

\* C19: under any sequence of create_job, set_job_processing,
\* set_job_completed and set_job_failed calls, a job whose status is completed
\* has progress 100.0 and, as result_url, the result last passed to
\* set_job_completed for it.
C19_CompletedHasResult ==
    \A j \in DOMAIN jobs :
        jobs[j].status = "completed" =>
            /\ jobs[j].progress = Pct(100)
            /\ jobs[j].result_url = completedWith[j]

\* C19 witness: a job that carries an error message from an earlier failure
\* was just completed with a result.
C19_Witness ==
    /\ lastCall.name = "set_job_completed"
    /\ lastCall.job_id \in DOMAIN jobs
    /\ jobs[lastCall.job_id].status = "completed"
    /\ jobs[lastCall.job_id].result_url = "url2"
    /\ jobs[lastCall.job_id].error_message # NoneVal

(***************************************************************************)
(* SpecLimiter: check_rate_limit calls under a non-decreasing clock        *)
(***************************************************************************)
RECURSIVE SumLen(_, _)
SumLen(f, S) ==
    IF S = {} THEN 0
    ELSE LET x == CHOOSE y \in S : TRUE IN Len(f[x]) + SumLen(f, S \ {x})

Tick ==
    /\ now < MaxTime
    /\ now' = now + 1
    /\ UNCHANGED <<requests, calls, trackerVars, sideVars, taskVars, pollVars,
                   textVars>>

CheckRateLimit(identifier) ==
    /\ SumLen(calls, Identifiers) < MaxCalls
    /\ LET r == check_rate_limit(requests, identifier, now)
       IN /\ requests' = r.requests
          /\ calls' = [calls EXCEPT ![identifier] =
                          Append(@, [t |-> now, ok |-> r.admitted])]
    /\ UNCHANGED <<now, trackerVars, sideVars, taskVars, pollVars, textVars>>

LimiterNext ==
    \/ Tick
    \/ \E identifier \in Identifiers : CheckRateLimit(identifier)

SpecLimiter == Init /\ [][LimiterNext]_vars

\* the identifier's history is empty when its call number s is made: every
\* request admitted before it is window_seconds old or older
EmptyHistoryAt(h, s) ==
    \A j \in 1..(s - 1) : h[j].ok => h[s].t - h[j].t >= window_seconds

\* C5: of max_requests + 1 calls of one identifier within one window that
\* start from an empty history, the first max_requests are admitted and the
\* last is rejected.
C5_BurstAdmitsExactlyN ==
    \A id \in Identifiers :
        LET h == calls[id] IN
        \A s \in 1..Len(h) :
            (/\ EmptyHistoryAt(h, s)
             /\ s + max_requests <= Len(h)
             /\ h[s + max_requests].t - h[s].t < window_seconds)
            => /\ \A i \in s..(s + max_requests - 1) : h[i].ok
               /\ ~h[s + max_requests].ok

\* C5 witness: an identifier made max_requests + 1 calls within one window.
C5_Witness ==
    \E id \in Identifiers :
        LET h == calls[id] IN
        /\ Len(h) = max_requests + 1
        /\ h[max_requests + 1].t - h[1].t < window_seconds
        /\ ~h[max_requests + 1].ok

LastCallTime(id) == calls[id][Len(calls[id])].t

\* C23: after every check_rate_limit call the identifier's stored list holds
\* only timestamps less than window_seconds before the call, in
\* non-decreasing order, and at most max_requests of them.
C23_ListWithinWindowSortedBounded ==
    \A id \in Identifiers :
        calls[id] # <<>> =>
            /\ id \in DOMAIN requests
            /\ Len(requests[id]) <= max_requests
            /\ \A i \in 1..Len(requests[id]) :
                  /\ LastCallTime(id) - requests[id][i] < window_seconds
                  /\ requests[id][i] <= LastCallTime(id)
            /\ \A i \in 1..(Len(requests[id]) - 1) :
                  requests[id][i] <= requests[id][i + 1]

\* C23 witness: a call pruned an expired timestamp and kept a later one.
C23_Witness ==
    \E id \in Identifiers :
        /\ Len(calls[id]) >= 3
        /\ calls[id][1].ok /\ calls[id][2].ok
        /\ calls[id][1].t < calls[id][2].t
        /\ LastCallTime(id) - calls[id][1].t >= window_seconds
        /\ LastCallTime(id) - calls[id][2].t < window_seconds
        /\ Len(requests[id]) = max_requests

\* the entries of a list that are less than window_seconds older than t
Unexpired(lst, t) == SelectSeq(lst, LAMBDA x : t - x < window_seconds)

\* the list the dict holds for an identifier, empty if it has none
StoredList(reqs, id) == IF id \in DOMAIN reqs THEN reqs[id] ELSE <<>>

\* C24: a rejected call leaves the identifier's list as it was but for the
\* expired entries; an admitted call appends the current time to it, once;
\* either way every other identifier's list is unchanged.
C24_RejectedRecordsNothing ==
    [][\A id \in Identifiers :
          Len(calls'[id]) = Len(calls[id]) + 1 =>
              /\ StoredList(requests', id) =
                    IF calls'[id][Len(calls'[id])].ok
                    THEN Append(Unexpired(StoredList(requests, id), now), now)
                    ELSE Unexpired(StoredList(requests, id), now)
              /\ \A other \in Identifiers \ {id} :
                    /\ StoredList(requests', other) = StoredList(requests, other)
                    /\ (other \in DOMAIN requests') = (other \in DOMAIN requests)]_vars

\* C24 witness: a call was rejected while another identifier had entries.
C24_Witness ==
    \E id \in Identifiers, other \in Identifiers :
        /\ other # id
        /\ calls[id] # <<>> /\ ~calls[id][Len(calls[id])].ok
        /\ StoredList(requests, other) # <<>>
        /\ Len(StoredList(requests, id)) = max_requests

(***************************************************************************)
(* Spec: one service operation from its call to its return or raise        *)
(***************************************************************************)
MaxK == 61
MaxTextLen == 12
MaxVariations == 3

\* base.py generate_job_id: uuid4, an id no job has yet
FreshJobIds == JobIds \ DOMAIN jobs

\* settings.max_image_size
max_image_size == 2048

ImageSizes == {255, 1024, 2049}
BatchSizes == {1, 2}

\* _validate_image_size raises ValueError
InvalidImageSize(width, height) ==
    \/ width > max_image_size \/ height > max_image_size
    \/ width < 256 \/ height < 256

TimeoutError == "Generation timeout - prediction took too long to complete"

\* the "error" field of a failed prediction: absent, or the provider's string
ErrorFields == {[present |-> FALSE, text |-> NoneVal],
                [present |-> TRUE, text |-> "NSFW content detected"],
                [present |-> TRUE, text |-> "CUDA out of memory"]}

\* prediction.get("error", "Generation failed")
ErrorMsg(error) == IF error.present THEN error.text ELSE "Generation failed"

\* a plausible slip: the message that leaves the provider's string out
GenerationFailedGeneric(error_msg) == "Generation failed"

\* f"Generation failed: {error_msg}"
GenerationFailed(error_msg) ==
    CASE error_msg = "Generation failed" -> "Generation failed: Generation failed"
      [] error_msg = "NSFW content detected" ->
            "Generation failed: NSFW content detected"
      [] error_msg = "CUDA out of memory" -> "Generation failed: CUDA out of memory"

Statuses == {"starting", "processing", "succeeded", "failed", "unknown",
             "http_error", "malformed"}

\* the "output" field of a prediction: null, or a list of URLs
Outputs == {[null |-> TRUE, urls |-> <<>>],
            [null |-> FALSE, urls |-> <<>>],
            [null |-> FALSE, urls |-> <<"url1">>],
            [null |-> FALSE, urls |-> <<"url1", "url2">>]}

\* prediction["output"] or []
OutputOrEmpty(o) == IF o.null THEN <<>> ELSE o.urls

\* the status sources: a script answers processing k times and then succeeded;
\* a flaky source fails in transport k times and then answers succeeded; a
\* failing source answers processing k times and then failed; any other
\* source may answer anything on every fetch
Sources ==
    [kind : {"script"}, k : 0..MaxK, output : Outputs]
    \cup [kind : {"any"}, k : {0}, output : Outputs]
    \cup [kind : {"flaky"}, k : 0..MaxK, output : Outputs]
    \cup [kind : {"failing"}, k : 0..MaxK, output : {[null |-> TRUE, urls |-> <<>>]},
           error : ErrorFields]

\* what fetch number n of the source may answer
SourceAnswers(src, n) ==
    CASE src.kind = "script" -> {IF n <= src.k THEN "processing" ELSE "succeeded"}
      [] src.kind = "flaky" -> {IF n <= src.k THEN "http_error" ELSE "succeeded"}
      [] src.kind = "failing" -> {IF n <= src.k THEN "processing" ELSE "failed"}
      [] OTHER -> Statuses

\* the "error" field a failed answer of the source may carry
SourceErrors(src) == IF src.kind = "failing" THEN {src.error} ELSE ErrorFields

\* _poll_prediction's max_retries
\* a plausible slip: an off-by-one in the attempt budget
max_retries_short == 60 - 1

max_retries == 60

\* a plausible slip: the estimate counts the attempts left, not the attempts made
PollProgressRemaining(rc) ==
    Min(Pct(50) + ((max_retries - rc) * Pct(45)) \div max_retries, Pct(95))

\* a plausible slip: the attempt count is not scaled by max_retries
PollProgressNoScale(rc) == Min(Pct(50) + rc * Pct(45), Pct(95))

\* progress = min(50.0 + (retry_count / max_retries) * 45.0, 95.0)
PollProgress(rc) == Min(Pct(50) + (rc * Pct(45)) \div max_retries, Pct(95))

\* a plausible slip: the succeeded branch returns without the final update
PollSucceededNoUpdate(js, j) == js

\* the succeeded branch's tracker update
PollSucceeded(js, j) == set_job_processing(js, j, Pct(100))

\* a plausible slip: a transport error marks the job failed
PollHttpErrorMarksFailed(js, j) == set_job_failed(js, j, "HTTPError")

\* except httpx.HTTPError: the error is logged, the tracker is not touched
PollHttpError(js, j) == js

\* a plausible slip: the unknown-status branch sleeps without counting
RetryAfterUnknownStuck(rc) == rc

\* the unknown-status branch: retry_count += 1
RetryAfterUnknown(rc) == rc + 1

\* ImageGenerationService.generate_images, up to create_job
GenerateImagesStart(j, width, height, batch_size) ==
    /\ pc = "idle"
    /\ op' = "generate_images"
    /\ request' = [kind |-> "image", width |-> width, height |-> height,
                   batch_size |-> batch_size]
    /\ job_id' = j
    /\ jobs' = create_job(jobs, j, "image_generation")
    /\ everCreated' = everCreated \cup {j}
    /\ pc' = "gi_validate"
    /\ UNCHANGED <<lastCall, completedWith, limiterVars, sideVars, exc, http, pollVars, textVars>>

\* _validate_image_size, then set_job_processing(job_id, 10.0)
GenerateImagesValidate ==
    /\ pc = "gi_validate"
    /\ IF InvalidImageSize(request.width, request.height)
       THEN /\ exc' = "ValueError"
            /\ pc' = "except"
            /\ UNCHANGED jobs
       ELSE /\ jobs' = set_job_processing(jobs, job_id, Pct(10))
            /\ pc' = "gi_build_prompt"
            /\ UNCHANGED exc
    /\ UNCHANGED <<everCreated, lastCall, completedWith, limiterVars, sideVars, op, request, job_id, http,
                   pollVars, textVars>>

\* _build_enhanced_prompt reads self.style_prompts, an attribute the class
\* never sets: AttributeError
GenerateImagesBuildPrompt ==
    /\ pc = "gi_build_prompt"
    /\ exc' = "AttributeError"
    /\ pc' = "except"
    /\ UNCHANGED <<trackerVars, limiterVars, sideVars, op, request, job_id, http,
                   pollVars, textVars>>

\* ImageGenerationService.upscale_image, up to create_job
UpscaleStart(j) ==
    /\ pc = "idle"
    /\ op' = "upscale_image"
    /\ request' = [kind |-> "upscale"]
    /\ job_id' = j
    /\ jobs' = create_job(jobs, j, "image_upscaling")
    /\ everCreated' = everCreated \cup {j}
    /\ pc' = "up_post"
    /\ UNCHANGED <<lastCall, completedWith, limiterVars, sideVars, exc, http, pollVars, textVars>>

\* replicate_client.post("/predictions") and raise_for_status; on success the
\* call of _poll_prediction (retry_count = 0)
UpscalePost ==
    /\ pc = "up_post"
    /\ \/ /\ exc' = "HTTPStatusError"
          /\ pc' = "except"
          /\ UNCHANGED pollVars
       \/ \E src \in Sources :
            /\ source' = src
            /\ retry_count' = 0
            /\ nFetch' = 0
            /\ onlyProcessing' = TRUE
            /\ pc' = "poll"
            /\ UNCHANGED <<exc, result_urls>>
    /\ UNCHANGED <<trackerVars, limiterVars, sideVars, op, request, job_id, http, textVars>>

\* one iteration of _poll_prediction's loop: one status fetch and its branch
PollFetch(answer) ==
    /\ pc = "poll"
    /\ retry_count < max_retries
    /\ answer \in SourceAnswers(source, nFetch + 1)
    /\ nFetch' = nFetch + 1
    /\ onlyProcessing' = (onlyProcessing /\ answer = "processing")
    /\ CASE answer = "succeeded" ->
              /\ jobs' = PollSucceeded(jobs, job_id)
              /\ result_urls' = OutputOrEmpty(source.output)
              /\ pc' = "poll_returned"
              /\ UNCHANGED <<retry_count, exc>>
         [] answer = "failed" ->
              /\ \E error \in SourceErrors(source) :
                    exc' = GenerationFailed(ErrorMsg(error))
              /\ pc' = "poll_raised"
              /\ UNCHANGED <<jobs, retry_count, result_urls>>
         [] answer \in {"starting", "processing"} ->
              /\ jobs' = set_job_processing(jobs, job_id, PollProgress(retry_count))
              /\ retry_count' = retry_count + 1
              /\ UNCHANGED <<pc, exc, result_urls>>
         [] answer = "unknown" ->
              /\ retry_count' = RetryAfterUnknown(retry_count)
              /\ UNCHANGED <<jobs, pc, exc, result_urls>>
         [] answer = "http_error" ->
              /\ jobs' = PollHttpError(jobs, job_id)
              /\ retry_count' = retry_count + 1
              /\ UNCHANGED <<pc, exc, result_urls>>
         [] answer = "malformed" ->
              /\ exc' = "KeyError"
              /\ pc' = "poll_raised"
              /\ UNCHANGED <<jobs, retry_count, result_urls>>
    /\ UNCHANGED <<everCreated, lastCall, completedWith, limiterVars, sideVars, op, request, job_id, http,
                   source, textVars>>

\* the loop ends without a terminal status: the timeout is raised
PollTimeout ==
    /\ pc = "poll"
    /\ retry_count >= max_retries
    /\ exc' = TimeoutError
    /\ pc' = "poll_raised"
    /\ UNCHANGED <<trackerVars, limiterVars, sideVars, op, request, job_id, http, pollVars,
                   textVars>>

\* the poller's exception reaches the operation's except clause
PollRaisedToCaller ==
    /\ pc = "poll_raised"
    /\ pc' = "except"
    /\ UNCHANGED <<trackerVars, limiterVars, sideVars, op, request, job_id, exc, http,
                   pollVars, textVars>>

\* upscale_image after _poll_prediction returned
UpscaleAfterPoll ==
    /\ pc = "poll_returned"
    /\ op = "upscale_image"
    /\ IF result_urls # <<>>
       THEN /\ jobs' = set_job_completed(jobs, job_id, result_urls[1])
            /\ pc' = "returned"
            /\ UNCHANGED exc
       ELSE /\ exc' = "Upscaling failed"
            /\ pc' = "except"
            /\ UNCHANGED jobs
    /\ UNCHANGED <<everCreated, lastCall, completedWith, limiterVars, sideVars, op, request, job_id, http,
                   pollVars, textVars>>

\* except Exception as e: set_job_failed(job_id, str(e)); raise
Except ==
    /\ pc = "except"
    /\ jobs' = set_job_failed(jobs, job_id, exc)
    /\ pc' = "raised"
    /\ UNCHANGED <<everCreated, lastCall, completedWith, limiterVars, sideVars, op, request, job_id, exc,
                   http, pollVars, textVars>>

\* main.py: the endpoint's try/except around the service call
EndpointRespond ==
    /\ pc \in {"returned", "raised"}
    /\ op \in {"generate_images", "generate_text"}
    /\ http' = IF pc = "returned" THEN 200
               ELSE IF exc = "ValueError" THEN 400 ELSE 500
    /\ pc' = "done"
    /\ UNCHANGED <<trackerVars, limiterVars, sideVars, op, request, job_id, exc, pollVars,
                   textVars>>

(***************************************************************************)
(* TextGenerationService.generate_text                                     *)
(***************************************************************************)
\* TextGenerationRequest.max_length: ge=10
min_max_length == 10

MaxLengths == min_max_length..(min_max_length + 1)
FormatTypes == {"body", "cta", "tagline"}

\* what the completion API may answer: chars characters, of which lead
\* leading and trail trailing whitespace, in words words
RawTexts ==
    {r \in [chars : 0..(MaxTextLen + 2), lead : 0..1, trail : 0..1, words : {0, 1, 6}] :
        LET core == r.chars - r.lead - r.trail IN
        /\ core \in {0} \cup ((min_max_length - 1)..MaxTextLen)
        /\ (r.words = 0) <=> (core = 0)
        /\ 2 * r.words - 1 <= core}

\* str.strip(): the leading and trailing whitespace goes
Strip(raw) == [len |-> raw.chars - raw.lead - raw.trail, words |-> raw.words]

Clamp01(score) == IF score < 0 THEN 0 ELSE IF score > 100 THEN 100 ELSE score

\* _calculate_confidence_score, in hundredths
CalculateConfidenceScore(text, req) ==
    LET length == IF text.len <= req.max_length THEN 10 ELSE -20
        format == IF \/ req.format_type = "headline" /\ text.words <= 10
                     \/ req.format_type = "cta" /\ text.words <= 5
                     \/ req.format_type = "tagline" /\ text.words <= 8
                  THEN 5 ELSE 0
    IN Clamp01(80 + length + format)

\* variations.sort(key=confidence_score, reverse=True): stable, descending
InsertByScore(sorted, x) ==
    LET n == Cardinality({i \in 1..Len(sorted) :
                            sorted[i].confidence_score >= x.confidence_score})
    IN SubSeq(sorted, 1, n) \o <<x>> \o SubSeq(sorted, n + 1, Len(sorted))

RECURSIVE SortByScore(_)
SortByScore(seq) ==
    IF seq = <<>> THEN <<>>
    ELSE InsertByScore(SortByScore(SubSeq(seq, 1, Len(seq) - 1)), seq[Len(seq)])

\* progress = 25.0 + (i + 1) / request.variation_count * 65.0
TextProgress(i, variation_count) ==
    Pct(25) + ((i + 1) * Pct(65)) \div variation_count

\* generate_text, up to create_job
GenerateTextStart(j, max_length, variation_count, format_type) ==
    /\ pc = "idle"
    /\ op' = "generate_text"
    /\ request' = [kind |-> "text", max_length |-> max_length,
                   variation_count |-> variation_count,
                   format_type |-> format_type]
    /\ job_id' = j
    /\ jobs' = create_job(jobs, j, "text_generation")
    /\ everCreated' = everCreated \cup {j}
    /\ pc' = "gt_begin"
    /\ UNCHANGED <<lastCall, completedWith, limiterVars, sideVars, exc, http, pollVars, textVars>>

\* set_job_processing(job_id, 10.0)
GenerateTextBegin ==
    /\ pc = "gt_begin"
    /\ jobs' = set_job_processing(jobs, job_id, Pct(10))
    /\ pc' = "gt_prompts"
    /\ UNCHANGED <<everCreated, lastCall, completedWith, limiterVars, sideVars, op, request, job_id, exc,
                   http, pollVars, textVars>>

\* the prompts are built; set_job_processing(job_id, 25.0); the loop starts
GenerateTextPrompts ==
    /\ pc = "gt_prompts"
    /\ jobs' = set_job_processing(jobs, job_id, Pct(25))
    /\ variations' = <<>>
    /\ vi' = 0
    /\ pc' = "gt_loop"
    /\ UNCHANGED <<everCreated, lastCall, completedWith, limiterVars, sideVars, op, request, job_id, exc,
                   http, pollVars>>

\* one iteration: _generate_single_text raises on an API error, else the
\* stripped text is scored and appended and the progress updated
GenerateTextVariation ==
    /\ pc = "gt_loop"
    /\ vi < request.variation_count
    /\ \/ /\ exc' = "OpenAI API error"
          /\ pc' = "except"
          /\ UNCHANGED <<jobs, variations, vi>>
       \/ \E raw \in RawTexts :
            LET variation_text == Strip(raw) IN
            /\ variations' = Append(variations,
                    [text |-> variation_text,
                     confidence_score |->
                        CalculateConfidenceScore(variation_text, request)])
            /\ jobs' = set_job_processing(jobs, job_id,
                          TextProgress(vi, request.variation_count))
            /\ vi' = vi + 1
            /\ UNCHANGED <<pc, exc>>
    /\ UNCHANGED <<everCreated, lastCall, completedWith, limiterVars, sideVars, op, request, job_id, http,
                   pollVars>>

\* after the loop: sort, build the response, set_job_completed, return
GenerateTextFinish ==
    /\ pc = "gt_loop"
    /\ vi >= request.variation_count
    /\ LET sorted == SortByScore(variations) IN
       /\ variations' = sorted
       /\ jobs' = set_job_completed(jobs, job_id,
                     IF sorted # <<>> THEN sorted[1].text ELSE [len |-> 0, words |-> 0])
    /\ pc' = "gt_log_complete"
    /\ UNCHANGED <<everCreated, lastCall, completedWith, limiterVars, sideVars, op, request, job_id, exc,
                   http, pollVars, vi>>

\* await self._log_job_complete(...), still inside the try block: the log
\* call returns, or it raises (the log stream fails) into the except clause
GenerateTextLogComplete ==
    /\ pc = "gt_log_complete"
    /\ \/ pc' = "returned" /\ UNCHANGED exc
       \/ pc' = "except" /\ exc' = "logging error"
    /\ UNCHANGED <<trackerVars, limiterVars, sideVars, op, request, job_id, http,
                   pollVars, textVars>>

\* BackgroundRemovalService.advanced_object_segmentation, up to create_job
SegmentationStart(j) ==
    /\ pc = "idle"
    /\ op' = "advanced_object_segmentation"
    /\ request' = [kind |-> "segmentation"]
    /\ job_id' = j
    /\ jobs' = create_job(jobs, j, "advanced_segmentation")
    /\ everCreated' = everCreated \cup {j}
    /\ pc' = "seg_work"
    /\ UNCHANGED <<lastCall, completedWith, limiterVars, sideVars, exc, http,
                   pollVars, textVars>>

\* download, segment and save the image (any of which may raise), then
\* set_job_completed and return
SegmentationWork ==
    /\ pc = "seg_work"
    /\ \/ /\ exc' = "download error"
          /\ pc' = "except"
          /\ UNCHANGED jobs
       \/ /\ jobs' = set_job_completed(jobs, job_id, "url1")
          /\ pc' = "returned"
          /\ UNCHANGED exc
    /\ UNCHANGED <<everCreated, lastCall, completedWith, limiterVars, sideVars, op,
                   request, job_id, http, pollVars, textVars>>

Next ==
    \/ \E j \in FreshJobIds, w \in ImageSizes, h \in ImageSizes, b \in BatchSizes :
          GenerateImagesStart(j, w, h, b)
    \/ GenerateImagesValidate
    \/ GenerateImagesBuildPrompt
    \/ \E j \in FreshJobIds : UpscaleStart(j)
    \/ UpscalePost
    \/ \E answer \in Statuses : PollFetch(answer)
    \/ PollTimeout
    \/ PollRaisedToCaller
    \/ UpscaleAfterPoll
    \/ \E j \in FreshJobIds, m \in MaxLengths, n \in 1..MaxVariations,
          f \in FormatTypes : GenerateTextStart(j, m, n, f)
    \/ GenerateTextBegin
    \/ GenerateTextPrompts
    \/ GenerateTextVariation
    \/ GenerateTextFinish
    \/ GenerateTextLogComplete
    \/ \E j \in FreshJobIds : SegmentationStart(j)
    \/ SegmentationWork
    \/ Except
    \/ EndpointRespond

Spec == Init /\ [][Next]_vars

(***************************************************************************)
(* SpecEndpoint: the endpoints of main.py behind the rate-limit dependency *)
(***************************************************************************)
RateLimitExceeded == "Rate limit exceeded. Please try again later."

\* a plausible slip: the limiter is consulted once the handler has run
DependsAfterHandler(admitted, js, handled) ==
    IF admitted THEN handled
    ELSE [jobs |-> handled.jobs, status_code |-> 429, detail |-> RateLimitExceeded]

\* Depends(check_rate_limit): the dependency runs before the handler, and the
\* HTTPException(429) it raises is the answer; the handler does not run
Depends(admitted, js, handled) ==
    IF admitted THEN handled
    ELSE [jobs |-> js, status_code |-> 429, detail |-> RateLimitExceeded]

\* the sizes the request schema lets through (256..2048)
SchemaImageSizes == {w \in ImageSizes : w >= 256 /\ w <= 2048}

\* ImageGenerationService.generate_images from its call to its raise
generate_images(js, j, width, height) ==
    LET created == create_job(js, j, "image_generation") IN
    IF InvalidImageSize(width, height)
    THEN [jobs |-> set_job_failed(created, j, "ValueError"),
          type |-> "ValueError", message |-> "ValueError"]
    ELSE [jobs |-> set_job_failed(set_job_processing(created, j, Pct(10)), j,
                                  "AttributeError"),
          type |-> "AttributeError", message |-> "AttributeError"]

\* what the DeepL API may do with a request
DeepLOutcomes == {"ok", "error_status", "no_translation"}

DeepLNotConfigured == "DeepL API not configured"

\* the exception a DeepL outcome makes translate_text raise
DeepLError(outcome) ==
    CASE outcome = "error_status" ->
            [type |-> "Exception", message |-> "DeepL API error: Translation failed"]
      [] outcome = "no_translation" ->
            [type |-> "Exception", message |-> "No translation returned"]

\* TextGenerationService.translate_text from its call to its return or raise
translate_text(js, j, client, outcome) ==
    IF client = NoneVal
    THEN [jobs |-> set_job_failed(js, j, DeepLNotConfigured),
          type |-> "ValueError", message |-> DeepLNotConfigured]
    ELSE LET created == create_job(js, j, "translation")
             sent == set_job_processing(set_job_processing(created, j, Pct(25)),
                                        j, Pct(50))
         IN IF outcome = "ok"
            THEN [jobs |-> set_job_completed(set_job_processing(sent, j, Pct(90)),
                                             j, "translated text"),
                  type |-> NoneVal, message |-> NoneVal]
            ELSE [jobs |-> set_job_failed(sent, j, DeepLError(outcome).message),
                  type |-> DeepLError(outcome).type,
                  message |-> DeepLError(outcome).message]

\* the endpoints' try/except: ValueError is answered 400 with the message as
\* detail, any other exception 500 with the endpoint's fixed detail
EndpointAnswer(ran, failure_detail) ==
    [jobs |-> ran.jobs,
     status_code |-> IF ran.type = NoneVal THEN 200
                     ELSE IF ran.type = "ValueError" THEN 400 ELSE 500,
     detail |-> IF ran.type = NoneVal THEN NoneVal
                ELSE IF ran.type = "ValueError" THEN ran.message
                ELSE failure_detail]

ApiKeys == {NoneVal, "key"}

\* TextGenerationService._setup
SetupTextService(openai_api_key, deepl_api_key) ==
    /\ deepl_client' = IF openai_api_key # NoneVal /\ deepl_api_key # NoneVal
                       THEN "client" ELSE deepl_client
    /\ UNCHANGED <<response, trackerVars, limiterVars, cacheVars, appVars, asyncVars, taskVars,
                   pollVars, textVars>>

\* the requests one behaviour makes: enough for one client to be rejected
MaxEndpointRequests == max_requests + 1

\* one request to an endpoint, from the dependency to the response
EndpointRequest(endpoint, client_ip, j, handled) ==
    /\ SumLen(calls, Identifiers) < MaxEndpointRequests
    /\ LET r == check_rate_limit(requests, client_ip, now)
           answer == Depends(r.admitted, jobs, handled)
       IN /\ r.admitted => j \in FreshJobIds
          /\ requests' = r.requests
          /\ calls' = [calls EXCEPT ![client_ip] =
                          Append(@, [t |-> now, ok |-> r.admitted])]
          /\ jobs' = answer.jobs
          /\ everCreated' = everCreated \cup DOMAIN answer.jobs
          /\ response' = [endpoint |-> endpoint,
                          status_code |-> answer.status_code,
                          detail |-> answer.detail]
    /\ UNCHANGED <<lastCall, completedWith, now, deepl_client, cacheVars, appVars, asyncVars,
                   taskVars, pollVars, textVars>>

\* POST /api/v1/generate/images
EndpointGenerateImages(client_ip, j, width, height) ==
    EndpointRequest("generate_images", client_ip, j,
        EndpointAnswer(generate_images(jobs, j, width, height),
                       "Image generation failed"))

\* POST /api/v1/translate
EndpointTranslate(client_ip, j, outcome) ==
    EndpointRequest("translate_text", client_ip, j,
        EndpointAnswer(translate_text(jobs, j, deepl_client, outcome),
                       "Translation failed"))

\* the ids successive requests generate: which fresh id uuid4 yields is
\* immaterial, so they are taken in order
NextJobIds == {j \in JobIds : \A i \in FreshJobIds : j <= i}

EndpointNext ==
    \/ Tick
    \/ \E o \in ApiKeys, d \in ApiKeys : SetupTextService(o, d)
    \/ \E ip \in Identifiers, j \in NextJobIds, w \in SchemaImageSizes,
          h \in SchemaImageSizes : EndpointGenerateImages(ip, j, w, h)
    \/ \E ip \in Identifiers, j \in NextJobIds, o \in DeepLOutcomes :
          EndpointTranslate(ip, j, o)

SpecEndpoint == Init /\ [][EndpointNext]_vars

\* C11: when the rate limiter rejects a request the endpoint answers 429 and
\* the job registry is the same after the request as before it.
C11_RejectedCreatesNoJob ==
    [][\A id \in Identifiers :
          (/\ Len(calls'[id]) = Len(calls[id]) + 1
           /\ ~calls'[id][Len(calls'[id])].ok)
          => /\ response'.status_code = 429
             /\ jobs' = jobs]_vars

\* C11 witness: a request was answered 429 after the requests admitted
\* before it had created their jobs.
C11_Witness ==
    /\ response.status_code = 429
    /\ \E id \in Identifiers :
          /\ calls[id] # <<>>
          /\ ~calls[id][Len(calls[id])].ok
    /\ Cardinality(DOMAIN jobs) = MaxJobs

\* C18 (as claimed): with no DeepL client configured the translate endpoint
\* answers 500 with "DeepL API not configured" as detail.
C18_TranslateNotConfigured500 ==
    (/\ response.endpoint = "translate_text"
     /\ response.status_code # 429
     /\ deepl_client = NoneVal)
    => /\ response.status_code = 500
       /\ response.detail = DeepLNotConfigured

(***************************************************************************)
(* SpecApp: the Redis utilities (ai-service/app/utils/cache.py) and the    *)
(* background router (ai-service/app/api/background_removal.py)            *)
(***************************************************************************)
CacheKeys == {"k1", "k2"}

\* what callers cache: results, None, and an object json cannot serialize
CacheValues == {"result1", "result2", NoneVal, "unserializable"}

UserIds == {"u1", "u2"}
Features == {"generate"}
Limits == {0, 1}

\* json.dumps / json.loads
JsonDumps(value) == [json |-> value]
JsonLoads(serialized) == serialized.json

\* dict-style write of one key
Put(f, key, value) ==
    [k \in DOMAIN f \cup {key} |-> IF k = key THEN value ELSE f[k]]

\* cache_result: False without a client; json.dumps or setex raising is caught
cache_result(client, up, kv, key, value) ==
    IF client = NoneVal
    THEN [store |-> kv, returned |-> "False", raised |-> FALSE]
    ELSE IF value = "unserializable" \/ ~up
         THEN [store |-> kv, returned |-> "False", raised |-> FALSE]
         ELSE [store |-> [kv EXCEPT !.cache = Put(@, key, JsonDumps(value))],
               returned |-> "True", raised |-> FALSE]

\* a plausible slip: the read without its try/except
get_cached_result_unhandled(client, up, kv, key) ==
    IF client = NoneVal
    THEN [returned |-> NoneVal, raised |-> FALSE]
    ELSE IF ~up
         THEN [returned |-> NoneVal, raised |-> TRUE]
         ELSE [returned |-> IF key \in DOMAIN kv.cache
                            THEN JsonLoads(kv.cache[key]) ELSE NoneVal,
               raised |-> FALSE]

\* get_cached_result: None without a client; redis get raising is caught
get_cached_result(client, up, kv, key) ==
    IF client = NoneVal
    THEN [returned |-> NoneVal, raised |-> FALSE]
    ELSE IF ~up
         THEN [returned |-> NoneVal, raised |-> FALSE]
         ELSE [returned |-> IF key \in DOMAIN kv.cache
                            THEN JsonLoads(kv.cache[key]) ELSE NoneVal,
               raised |-> FALSE]

\* datetime.now(): the module imports only timedelta from datetime, so the
\* name is unbound and the expression raises NameError
DatetimeNow == [raised |-> TRUE, type |-> "NameError"]

\* a plausible slip: the handler that denies
RateLimitOnErrorDeny == "False"

\* except Exception: return True
RateLimitOnError == "True"

\* utils/cache.py check_rate_limit
redis_check_rate_limit(client, up, kv, user_id, feature, limit) ==
    IF client = NoneVal
    THEN [returned |-> "True", raised |-> FALSE]
    ELSE IF DatetimeNow.raised \/ ~up
         THEN [returned |-> RateLimitOnError, raised |-> FALSE]
         ELSE LET key == <<user_id, feature>>
                  current == IF key \in DOMAIN kv.usage THEN kv.usage[key] ELSE 0
              IN [returned |-> IF current < limit THEN "True" ELSE "False",
                  raised |-> FALSE]

\* increment_usage: 0 without a client; the key is built inside the try, so
\* the unbound name datetime, like a Redis error, ends in `return 0`
increment_usage(client, up, kv, user_id, feature, amount) ==
    IF client = NoneVal
    THEN [store |-> kv, returned |-> 0]
    ELSE IF DatetimeNow.raised \/ ~up
         THEN [store |-> kv, returned |-> 0]
         ELSE LET key == <<user_id, feature>>
                  current == IF key \in DOMAIN kv.usage THEN kv.usage[key] ELSE 0
              IN [store |-> [kv EXCEPT !.usage = Put(@, key, current + amount)],
                  returned |-> current + amount]

\* what increment_usage has been asked to add to a counter so far
Requested(user_id, feature) ==
    IF <<user_id, feature>> \in DOMAIN usageRequested
    THEN usageRequested[<<user_id, feature>>] ELSE 0

\* set_job_status: False without a client or on a Redis error, else the
\* status is stored under job:{job_id}
set_job_status(client, up, kv, status) ==
    IF client = NoneVal \/ ~up
    THEN [store |-> kv, returned |-> "False"]
    ELSE [store |-> [kv EXCEPT !.job = status], returned |-> "True"]

\* api/image_generation.py names datetime without importing it: evaluating
\* datetime.utcnow() raises NameError
DatetimeUtcnow == [raised |-> TRUE, type |-> "NameError"]

\* the exception classes `except Exception` catches
ExceptionClasses == {"Exception", "HTTPException", "ValueError", "NameError"}

\* generate_background: the HTTPException(501) is raised inside the try whose
\* except Exception clause answers HTTPException(500, detail=str(e))
generate_background ==
    LET e == [type |-> "HTTPException", status_code |-> 501,
              detail |-> "Background generation not yet implemented"]
    IN IF e.type \in ExceptionClasses
       THEN [status_code |-> 500, detail |-> e.detail]
       ELSE [status_code |-> e.status_code, detail |-> e.detail]

\* the cache is unavailable: no client, or the server does not answer
CacheUnavailable == redis_client = NoneVal \/ ~redis_up

\* init_redis: from_url and ping; on an error the client is None again
InitRedis ==
    /\ redis_client' = IF redis_up THEN "client" ELSE NoneVal
    /\ UNCHANGED <<redis_up, store, lastCacheCall, endpointVars, appVars, asyncVars, trackerVars,
                   limiterVars, taskVars, pollVars, textVars>>

\* close_redis
CloseRedis ==
    /\ redis_client # NoneVal
    /\ redis_client' = NoneVal
    /\ UNCHANGED <<redis_up, store, lastCacheCall, endpointVars, appVars, asyncVars, trackerVars,
                   limiterVars, taskVars, pollVars, textVars>>

\* environment: the Redis server goes away or comes back
RedisToggle ==
    /\ redis_up' = ~redis_up
    /\ UNCHANGED <<redis_client, store, lastCacheCall, endpointVars, appVars, asyncVars, trackerVars,
                   limiterVars, taskVars, pollVars, textVars>>

\* environment: a cached key's TTL runs out
Expire(key) ==
    /\ key \in DOMAIN store.cache
    /\ store' = [store EXCEPT !.cache = [k \in DOMAIN @ \ {key} |-> @[k]]]
    /\ UNCHANGED <<redis_client, redis_up, lastCacheCall, endpointVars, appVars, asyncVars,
                   trackerVars, limiterVars, taskVars, pollVars, textVars>>

CacheResult(key, value) ==
    /\ LET r == cache_result(redis_client, redis_up, store, key, value)
       IN /\ store' = r.store
          /\ lastCacheCall' = [name |-> "cache_result", key |-> key,
                               limit |-> 0, requested |-> 0,
                               unavailable |-> CacheUnavailable,
                               raised |-> r.raised, returned |-> r.returned]
    /\ UNCHANGED <<redis_client, redis_up, endpointVars, appVars, asyncVars, trackerVars,
                   limiterVars, taskVars, pollVars, textVars>>

GetCachedResult(key) ==
    /\ LET r == get_cached_result(redis_client, redis_up, store, key)
       IN lastCacheCall' = [name |-> "get_cached_result", key |-> key,
                            limit |-> 0, requested |-> 0,
                            unavailable |-> CacheUnavailable,
                            raised |-> r.raised, returned |-> r.returned]
    /\ UNCHANGED <<redis_client, redis_up, store, endpointVars, appVars, asyncVars, trackerVars,
                   limiterVars, taskVars, pollVars, textVars>>

RedisCheckRateLimit(user_id, feature, limit) ==
    /\ LET r == redis_check_rate_limit(redis_client, redis_up, store, user_id,
                                       feature, limit)
       IN lastCacheCall' = [name |-> "check_rate_limit", key |-> user_id,
                            limit |-> limit,
                            requested |-> Requested(user_id, feature),
                            unavailable |-> CacheUnavailable,
                            raised |-> r.raised, returned |-> r.returned]
    /\ UNCHANGED <<redis_client, redis_up, store, endpointVars, appVars, asyncVars, trackerVars,
                   limiterVars, taskVars, pollVars, textVars>>

\* POST /api/v1/background/generate
GenerateBackground ==
    /\ response' = [endpoint |-> "generate_background",
                    status_code |-> generate_background.status_code,
                    detail |-> generate_background.detail]
    /\ UNCHANGED <<deepl_client, cacheVars, appVars, asyncVars, trackerVars, limiterVars, taskVars,
                   pollVars, textVars>>

MaxUsage == 2

\* increment_usage(user_id, feature) with the default amount of 1
IncrementUsage(user_id, feature) ==
    /\ Requested(user_id, feature) < MaxUsage
    /\ LET r == increment_usage(redis_client, redis_up, store, user_id, feature, 1)
       IN store' = r.store
    /\ usageRequested' =
          IF CacheUnavailable THEN usageRequested
          ELSE Put(usageRequested, <<user_id, feature>>,
                   Requested(user_id, feature) + 1)
    /\ UNCHANGED <<redis_client, redis_up, lastCacheCall, batch, endpointVars,
                   asyncVars, trackerVars, limiterVars, taskVars, pollVars,
                   textVars>>

MaxItems == 2

\* POST /batch: the initial status is stored and the task scheduled; building
\* the response evaluates datetime.utcnow(), and the endpoint's except clause
\* answers the NameError with 500
BatchGenerate(total) ==
    /\ batch.pc = "idle"
    /\ store' = set_job_status(redis_client, redis_up, store,
                    [status |-> "processing", total |-> total,
                     completed |-> 0, failed |-> 0]).store
    /\ batch' = [pc |-> "scheduled", total |-> total, i |-> 0,
                 completed |-> 0, failed |-> 0]
    /\ response' = [endpoint |-> "batch_generate",
                    status_code |-> IF DatetimeUtcnow.raised THEN 500 ELSE 200,
                    detail |-> IF DatetimeUtcnow.raised THEN "NameError" ELSE NoneVal]
    /\ UNCHANGED <<redis_client, redis_up, lastCacheCall, usageRequested,
                   deepl_client, asyncVars, trackerVars, limiterVars, taskVars,
                   pollVars, textVars>>

\* process_batch_generation is called: completed = 0, failed = 0
BatchRun ==
    /\ batch.pc = "scheduled"
    /\ batch' = [batch EXCEPT !.pc = "loop"]
    /\ UNCHANGED <<cacheVars, usageRequested, endpointVars, asyncVars, trackerVars,
                   limiterVars, taskVars, pollVars, textVars>>

\* one iteration: the item succeeds or raises, and the running status is stored
BatchItem(success) ==
    /\ batch.pc = "loop"
    /\ batch.i < batch.total
    /\ LET completed == batch.completed + (IF success THEN 1 ELSE 0)
           failed == batch.failed + (IF success THEN 0 ELSE 1)
       IN /\ batch' = [batch EXCEPT !.i = @ + 1, !.completed = completed,
                                    !.failed = failed]
          /\ store' = set_job_status(redis_client, redis_up, store,
                          [status |-> "processing", total |-> batch.total,
                           completed |-> completed, failed |-> failed]).store
    /\ UNCHANGED <<redis_client, redis_up, lastCacheCall, usageRequested,
                   endpointVars, asyncVars, trackerVars, limiterVars, taskVars,
                   pollVars, textVars>>

\* after the loop: the final status dict names datetime.utcnow(), so the
\* NameError is raised before set_job_status is called
BatchFinal ==
    /\ batch.pc = "loop"
    /\ batch.i >= batch.total
    /\ IF DatetimeUtcnow.raised
       THEN /\ batch' = [batch EXCEPT !.pc = "raised"]
            /\ UNCHANGED store
       ELSE /\ batch' = [batch EXCEPT !.pc = "returned"]
            /\ store' = set_job_status(redis_client, redis_up, store,
                            [status |-> "completed", total |-> batch.total,
                             completed |-> batch.completed,
                             failed |-> batch.failed]).store
    /\ UNCHANGED <<redis_client, redis_up, lastCacheCall, usageRequested,
                   endpointVars, asyncVars, trackerVars, limiterVars, taskVars,
                   pollVars, textVars>>

AppNext ==
    \/ InitRedis
    \/ CloseRedis
    \/ RedisToggle
    \/ \E key \in CacheKeys : Expire(key)
    \/ \E key \in CacheKeys, value \in CacheValues : CacheResult(key, value)
    \/ \E key \in CacheKeys : GetCachedResult(key)
    \/ \E u \in UserIds, f \in Features, l \in Limits : RedisCheckRateLimit(u, f, l)
    \/ GenerateBackground

SpecApp == Init /\ [][AppNext]_vars

\* C15: the Redis-backed limiter fails open: with no client, or with a server
\* that does not answer, check_rate_limit returns True for every user,
\* feature and limit, and does not raise.
C15_RedisLimiterFailsOpen ==
    (lastCacheCall.name = "check_rate_limit" /\ lastCacheCall.unavailable) =>
        /\ lastCacheCall.returned = "True"
        /\ ~lastCacheCall.raised

\* C15 witness: the limiter was asked while a client existed but the server
\* did not answer.
C15_Witness ==
    /\ lastCacheCall.name = "check_rate_limit"
    /\ lastCacheCall.unavailable
    /\ redis_client # NoneVal /\ ~redis_up

\* C16: with the cache unavailable every cache_result returns False and every
\* get_cached_result returns None, whatever was cached before, and neither
\* raises.
C16_CacheUnavailableNoOp ==
    lastCacheCall.unavailable =>
        /\ lastCacheCall.name = "cache_result" =>
              lastCacheCall.returned = "False" /\ ~lastCacheCall.raised
        /\ lastCacheCall.name = "get_cached_result" =>
              lastCacheCall.returned = NoneVal /\ ~lastCacheCall.raised

\* C16 witness: a key cached while the server answered was read while it
\* did not.
C16_Witness ==
    /\ lastCacheCall.name = "get_cached_result"
    /\ lastCacheCall.unavailable
    /\ redis_client # NoneVal
    /\ lastCacheCall.key \in DOMAIN store.cache

\* The usage counters and the batch task of the AI service, over the same
\* Redis client
UsageNext ==
    \/ InitRedis
    \/ CloseRedis
    \/ RedisToggle
    \/ \E u \in UserIds, f \in Features : IncrementUsage(u, f)
    \/ \E u \in UserIds, f \in Features, l \in Limits : RedisCheckRateLimit(u, f, l)
    \/ \E total \in 0..MaxItems : BatchGenerate(total)
    \/ BatchRun
    \/ \E success \in BOOLEAN : BatchItem(success)
    \/ BatchFinal

SpecUsage == Init /\ [][UsageNext]_vars

(***************************************************************************)
(* Coroutines of one event loop: each action runs one task from one await  *)
(* point to the next                                                       *)
(***************************************************************************)
\* generate_bulk_text builds every request with variation_count=3
BulkVariationCount == 3

\* the record task p's own call wrote
Wrote(p, js, j) == [wrote EXCEPT ![p] = js[j]]

\* generate_text of task p, up to `await self._log_job_start`
BulkCreate(p, j) ==
    /\ bulk[p].pc = "idle"
    /\ jobs' = create_job(jobs, j, "text_generation")
    /\ everCreated' = everCreated \cup {j}
    /\ bulk' = [bulk EXCEPT ![p] = [pc |-> "created", job_id |-> j, i |-> 0]]
    /\ wrote' = Wrote(p, jobs', j)
    /\ UNCHANGED <<lastCall, completedWith, initCalls, is_initialized, setupsDone,
                   limiterVars, taskVars, pollVars, textVars, endpointVars,
                   cacheVars, appVars>>

\* set_job_processing 10.0 and 25.0, up to the first _generate_single_text
BulkBegin(p) ==
    /\ bulk[p].pc = "created"
    /\ jobs' = set_job_processing(set_job_processing(jobs, bulk[p].job_id, Pct(10)),
                                  bulk[p].job_id, Pct(25))
    /\ bulk' = [bulk EXCEPT ![p].pc = "loop"]
    /\ wrote' = Wrote(p, jobs', bulk[p].job_id)
    /\ UNCHANGED <<everCreated, lastCall, completedWith, initCalls, is_initialized,
                   setupsDone, limiterVars, taskVars, pollVars, textVars,
                   endpointVars, cacheVars, appVars>>

\* `await self._generate_single_text` answers: it raises, or the progress is
\* updated and, after the last variation, the job completed
BulkVariation(p) ==
    /\ bulk[p].pc = "loop"
    /\ \/ /\ bulk' = [bulk EXCEPT ![p].pc = "except"]
          /\ UNCHANGED <<jobs, wrote>>
       \/ LET progressed == set_job_processing(jobs, bulk[p].job_id,
                                TextProgress(bulk[p].i, BulkVariationCount))
          IN /\ IF bulk[p].i + 1 < BulkVariationCount
                THEN /\ jobs' = progressed
                     /\ bulk' = [bulk EXCEPT ![p].i = @ + 1]
                ELSE /\ jobs' = set_job_completed(progressed, bulk[p].job_id, "text")
                     /\ bulk' = [bulk EXCEPT ![p].i = @ + 1,
                                             ![p].pc = "log_complete"]
             /\ wrote' = Wrote(p, jobs', bulk[p].job_id)
    /\ UNCHANGED <<everCreated, lastCall, completedWith, initCalls, is_initialized,
                   setupsDone, limiterVars, taskVars, pollVars, textVars,
                   endpointVars, cacheVars, appVars>>

\* `await self._log_job_complete` answers: generate_text returns, or the log
\* call raised inside the try block
BulkLogComplete(p) ==
    /\ bulk[p].pc = "log_complete"
    /\ \/ bulk' = [bulk EXCEPT ![p].pc = "returned"]
       \/ bulk' = [bulk EXCEPT ![p].pc = "except"]
    /\ UNCHANGED <<trackerVars, wrote, initCalls, is_initialized, setupsDone,
                   limiterVars, taskVars, pollVars, textVars, endpointVars,
                   cacheVars, appVars>>

\* the except clause: set_job_failed, then the error is logged and re-raised
\* (gather collects it: return_exceptions=True)
BulkExcept(p) ==
    /\ bulk[p].pc = "except"
    /\ jobs' = set_job_failed(jobs, bulk[p].job_id, "error")
    /\ bulk' = [bulk EXCEPT ![p].pc = "raised"]
    /\ wrote' = Wrote(p, jobs', bulk[p].job_id)
    /\ UNCHANGED <<everCreated, lastCall, completedWith, initCalls, is_initialized,
                   setupsDone, limiterVars, taskVars, pollVars, textVars,
                   endpointVars, cacheVars, appVars>>

\* initialize(): the flag is read; if it is set the call returns, else the
\* call enters _setup and suspends at its first await
InitializeCall(p) ==
    /\ initCalls[p] = "idle"
    /\ initCalls' = [initCalls EXCEPT ![p] =
                        IF is_initialized THEN "returned" ELSE "setup"]
    /\ UNCHANGED <<trackerVars, bulk, wrote, is_initialized, setupsDone,
                   limiterVars, taskVars, pollVars, textVars, endpointVars,
                   cacheVars, appVars>>

\* _setup resumes: it raises out of initialize, or it completes and the
\* flag is set
SetupResume(p) ==
    /\ initCalls[p] = "setup"
    /\ \/ /\ initCalls' = [initCalls EXCEPT ![p] = "raised"]
          /\ UNCHANGED <<is_initialized, setupsDone>>
       \/ /\ initCalls' = [initCalls EXCEPT ![p] = "returned"]
          /\ setupsDone' = setupsDone + 1
          /\ is_initialized' = TRUE
    /\ UNCHANGED <<trackerVars, bulk, wrote, limiterVars, taskVars, pollVars,
                   textVars, endpointVars, cacheVars, appVars>>

AsyncNext ==
    \/ \E p \in Tasks, j \in FreshJobIds : BulkCreate(p, j)
    \/ \E p \in Tasks : BulkBegin(p)
    \/ \E p \in Tasks : BulkVariation(p)
    \/ \E p \in Tasks : BulkLogComplete(p)
    \/ \E p \in Tasks : BulkExcept(p)
    \/ \E p \in Tasks : InitializeCall(p)
    \/ \E p \in Tasks : SetupResume(p)

SpecAsync == Init /\ [][AsyncNext]_vars

\* C25: at every point of every interleaving of the gathered generate_text
\* calls, the record of each call's job is the one that call itself last
\* wrote: no update of another call has changed it.
C25_OwnRecordOnly ==
    \A p \in Tasks :
        bulk[p].pc # "idle" =>
            /\ bulk[p].job_id \in DOMAIN jobs
            /\ jobs[bulk[p].job_id] = wrote[p]

\* two calls are both inside their loops, at different iterations
C25_Witness ==
    \E p \in Tasks, q \in Tasks :
        /\ bulk[p].pc = "loop" /\ bulk[q].pc = "loop"
        /\ bulk[p].i = 1 /\ bulk[q].i = 2
        /\ jobs[bulk[p].job_id].progress # jobs[bulk[q].job_id].progress

\* C30 (as claimed): _setup runs to successful completion at most once.
C30_SetupAtMostOnce == setupsDone <= 1

\* C28 (as claimed): when process_batch_generation has ended, the stored
\* batch status is "completed" with completed + failed = total.
C28_BatchEndsCompleted ==
    batch.pc \in {"returned", "raised"} =>
        /\ store.job.status = "completed"
        /\ store.job.completed + store.job.failed = store.job.total

\* C29 (as claimed): with Redis available, check_rate_limit returns False
\* once increment_usage has been asked to raise the counter to limit or
\* more, and True while it is below limit.
C29_RedisLimiterCounts ==
    (lastCacheCall.name = "check_rate_limit" /\ ~lastCacheCall.unavailable) =>
        lastCacheCall.returned =
            IF lastCacheCall.requested < lastCacheCall.limit THEN "True" ELSE "False"

\* C17 (as claimed): generate_background answers every request 501.
C17_GenerateBackground501 ==
    response.endpoint = "generate_background" => response.status_code = 501

(***************************************************************************)
(* Claims about Spec                                                       *)
(***************************************************************************)
\* the running operation's job record
Job == jobs[job_id]

\* C2: when an operation that created a job has returned or raised, its job
\* is completed or failed; after a raise (a provider failure, a poller
\* timeout, any exception) it is failed and carries the error's message.
C2_NoJobStuck ==
    pc \in {"returned", "raised", "done"} =>
        /\ job_id \in DOMAIN jobs
        /\ Job.status \in Terminal
        /\ exc # NoneVal => /\ Job.status = "failed"
                            /\ Job.error_message = exc

\* C2 witness: the poller timed out and the operation has raised.
C2_Witness == pc = "raised" /\ exc = TimeoutError /\ Job.status = "failed"

\* what C3 says of a source that answers processing k times, then succeeded
ScriptedPollOutcome ==
    /\ pc # "poll_raised"
    /\ pc = "poll" => nFetch <= source.k
    /\ pc = "poll_returned" =>
          /\ nFetch = source.k + 1
          /\ result_urls = OutputOrEmpty(source.output)
          /\ Job.progress = Pct(100)

\* C3 (as claimed): for every k, the poller returns the succeeded output after
\* exactly k + 1 status fetches, the job's progress being 100.0.
C3_ReturnsAfterKPlus1 == source.kind = "script" => ScriptedPollOutcome

\* C3 (amended): the same for every k < max_retries (60).
C3_ReturnsAfterKPlus1_Amended ==
    (source.kind = "script" /\ source.k < 60) => ScriptedPollOutcome

\* C3 witness: the poller returned after several processing answers.
C3_Witness ==
    /\ source.kind = "script" /\ source.k = 59
    /\ pc = "poll_returned" /\ nFetch = 60

\* C4: while the source answers only processing the poller does not return;
\* it raises the timeout after 60 status fetches, the job not being completed.
C4_TimeoutAfterMaxAttempts ==
    (onlyProcessing /\ pc \in {"poll", "poll_returned", "poll_raised"}) =>
        /\ pc # "poll_returned"
        /\ nFetch <= 60
        /\ pc = "poll_raised" =>
              /\ exc = TimeoutError
              /\ nFetch = 60
              /\ Job.status # "completed"

\* C4 witness: the timeout raised after only processing answers.
C4_Witness ==
    /\ pc = "poll_raised" /\ onlyProcessing /\ source.kind = "any"
    /\ exc = TimeoutError

\* C7: between two successive set_job_processing calls of an operation the
\* job's progress does not decrease.
C7_ProgressMonotone ==
    [][\A j \in DOMAIN jobs :
          (/\ jobs[j].status = "processing"
           /\ jobs'[j].status = "processing")
          => jobs'[j].progress >= jobs[j].progress]_vars

\* C7 witness: the poller wrote several estimates and then 100.0.
C7_Witness ==
    /\ pc = "poll_returned" /\ source.kind = "script" /\ source.k >= 2
    /\ Job.status = "processing" /\ Job.progress = Pct(100)

\* C9 (as claimed): an image-generation request with a valid prompt,
\* 1024x1024 and batch_size = 2 is answered 200 with its job_id, and the
\* status query for that job answers completed with an image URL as result.
C9_EndToEndCompletes ==
    (/\ pc = "done" /\ op = "generate_images"
     /\ request.width = 1024 /\ request.height = 1024
     /\ request.batch_size = 2)
    => /\ http = 200
       /\ get_job_status(jobs, job_id).status_code = 200
       /\ get_job_status(jobs, job_id).body.status = "completed"
       /\ get_job_status(jobs, job_id).body.result_url \in Urls

\* C10 (as claimed): every variation generate_text returns is at most
\* request.max_length characters long.
C10_VariationsWithinMaxLength ==
    (op = "generate_text" /\ pc \in {"returned", "done"}) =>
        \A i \in 1..Len(variations) :
            variations[i].text.len <= request.max_length

\* C12 (as claimed): when generate_images rejects a request because
\* _validate_image_size raised, the job registry has no record for the request.
C12_NoRecordForRejected ==
    (op = "generate_images" /\ exc = "ValueError") => job_id \notin DOMAIN jobs

\* the message C13 expects for a failed answer: the provider's error string
\* after the prefix, or the default text when the answer names no error
ExpectedFailure(error) ==
    IF ~error.present THEN "Generation failed: Generation failed"
    ELSE IF error.text = "NSFW content detected"
         THEN "Generation failed: NSFW content detected"
         ELSE "Generation failed: CUDA out of memory"

\* C13: a failed status makes the poller raise at once -- that fetch consumes
\* no attempt and is the last -- with a message that carries the provider's
\* error string, and the caller marks the job failed with that message.
C13_FailedRaisesAtOnce ==
    /\ (source.kind = "failing" /\ source.k < 60) =>
          /\ pc # "poll_returned"
          /\ pc = "poll" => nFetch <= source.k
          /\ pc \in {"poll_raised", "except", "raised"} =>
                /\ nFetch = source.k + 1
                /\ retry_count = source.k
                /\ exc = ExpectedFailure(source.error)
          /\ pc = "raised" => /\ Job.status = "failed"
                              /\ Job.error_message = ExpectedFailure(source.error)
    /\ (exc \in {ExpectedFailure(error) : error \in ErrorFields}) =>
          /\ pc \in {"poll_raised", "except", "raised"}
          /\ nFetch = retry_count + 1
          /\ pc = "raised" => Job.error_message = exc

\* C13 witness: the provider failed a prediction after several processing
\* answers, naming its error, and the operation has raised.
C13_Witness ==
    /\ pc = "raised" /\ source.kind = "failing" /\ source.k = 3
    /\ source.error.present
    /\ Job.error_message = "Generation failed: CUDA out of memory"

\* C14: a transport error during a status fetch does not abort the polling:
\* with k < 60 such errors before a succeeded answer, each consumes one
\* attempt and leaves the job as it was, and the output is returned after
\* k + 1 fetches.
C14_TransportErrorSwallowed ==
    (source.kind = "flaky" /\ source.k < 60) =>
        /\ pc # "poll_raised"
        /\ pc = "poll" =>
              /\ nFetch <= source.k
              /\ retry_count = nFetch
              /\ Job.status = "pending" /\ Job.progress = Pct(0)
        /\ pc = "poll_returned" =>
              /\ nFetch = source.k + 1
              /\ retry_count = source.k
              /\ result_urls = OutputOrEmpty(source.output)

\* C14 witness: the output came back after several transport errors.
C14_Witness ==
    /\ source.kind = "flaky" /\ source.k = 5
    /\ pc = "poll_returned" /\ result_urls = <<"url1", "url2">>

\* C20: the poller terminates within 60 status fetches whatever the source
\* answers: while it polls every fetch made has consumed one attempt, and it
\* never makes a 61st.
C20_PollTerminates ==
    /\ nFetch <= 60
    /\ pc = "poll" => /\ retry_count = nFetch
                      /\ ENABLED (PollTimeout \/ \E answer \in Statuses : PollFetch(answer))

\* C20 witness: the 60 attempts were used up by mixed answers.
C20_Witness ==
    /\ pc = "poll_raised" /\ exc = TimeoutError /\ nFetch = 60
    /\ source.kind = "any" /\ ~onlyProcessing

\* C21: while it polls, every progress value the poller has written is
\* min(50 + (retry_count / 60) * 45, 95) for an attempt already counted, so
\* lies in [50, 95]; it writes 100 only on the succeeded answer.
C21_PollProgressFormula ==
    /\ pc = "poll" =>
          \/ Job.status = "pending" /\ Job.progress = Pct(0)
          \/ /\ Job.status = "processing"
             /\ Job.progress >= Pct(50) /\ Job.progress <= Pct(95)
             /\ \E rc \in 0..(retry_count - 1) :
                   Job.progress * 60 = Min(Pct(50) * 60 + rc * Pct(45), Pct(95) * 60)
    /\ (pc \in {"poll", "poll_raised"} /\ op = "upscale_image") =>
          Job.progress # Pct(100)
    /\ pc = "poll_returned" => Job.progress = Pct(100)

\* C21 witness: the estimate written on the last attempt of the budget.
C21_Witness ==
    /\ pc = "poll" /\ retry_count = 60 /\ source.kind = "any"
    /\ Job.progress * 60 = Pct(50) * 60 + 59 * Pct(45)

\* C27 (as claimed): a failed job never shows progress 100.0.
C27_FailedNeverShows100 ==
    \A j \in DOMAIN jobs : jobs[j].status = "failed" => jobs[j].progress # Pct(100)

\* C22 (as claimed): no job moves from pending to completed or failed
\* without first being set to processing.
C22_PendingThenProcessing ==
    [][\A j \in DOMAIN jobs :
          (jobs[j].status = "pending" /\ j \in DOMAIN jobs')
          => jobs'[j].status \in {"pending", "processing"}]_vars

\* C26 (as claimed): once an operation has marked its job completed, nothing
\* later in the operation changes the job's status.
C26_OneTerminalTransition ==
    [][\A j \in DOMAIN jobs :
          (jobs[j].status = "completed" /\ j \in DOMAIN jobs')
          => jobs'[j].status = "completed"]_vars

====
